---------------------------- MODULE Spec2Model ----------------------------
(***************************************************************************)
(* A model of MBTilesMap (src/src/map/mbtilesmap.cpp): the map object      *)
(* built over an MBTiles container, its zoom operations and its tile       *)
(* drawing loop with the process-wide pixmap cache.                        *)
(*                                                                         *)
(* Numbers.  All ratios are 1.0 in this file (_deviceRatio and _tileRatio  *)
(* are set by the constructor and by nothing else), so every coordinate    *)
(* the drawing loop handles is a multiple of one pixel of the deepest zoom *)
(* level.  Mercator coordinates are kept in that unit ("mu"): the world    *)
(* spans TILE_SIZE * 2^MaxZoomLevel mu, i.e. 360 degrees, and              *)
(* zoom2scale(z) is 2^(MaxZoomLevel - z) mu per pixel.  A Coordinates      *)
(* value is kept as its Mercator image, so osm::ll2m and osm::m2ll, which  *)
(* are inverse to each other, do not appear.                               *)
(***************************************************************************)
EXTENDS Integers, FiniteSets, Sequences

\* The deepest zoom level a container of the model stores.
MaxZoomLevel == 2

\* Tile edge in pixels (config.h), used by tileSize().
TILE_SIZE == 256

VARIABLES
    container,      \* the MBTiles file behind _db: what it holds
    _db,            \* TRUE when the connection _db is open
    _valid,         \* MBTilesMap::_valid
    _errorString,   \* MBTilesMap::_errorString
    _zooms,         \* MBTilesMap::_zooms, a Range [min, max]
    _zoom,          \* MBTilesMap::_zoom
    _bounds,        \* MBTilesMap::_bounds, a RectC
    _deviceRatio,   \* MBTilesMap::_deviceRatio
    _tileRatio,     \* MBTilesMap::_tileRatio
    cache,          \* QPixmapCache: the keys that hold a pixmap
    call            \* the last call made on the map and what it returned

vars == <<container, _db, _valid, _errorString, _zooms, _zoom, _bounds,
          _deviceRatio, _tileRatio, cache, call>>

----------------------------------------------------------------------------
(* Arithmetic helpers *)

\* 1 << n.  The shifts of a valid map have 0 <= n <= MaxZoomLevel; a shift
\* by a negative n, which only the unset _zoom of a failed map can ask for,
\* yields 1.
Pow2(n) == IF n <= 0 THEN 1 ELSE 2 ^ n

qMin(a, b) == IF a < b THEN a ELSE b

qMax(a, b) == IF a < b THEN b ELSE a

\* floor(a / b) and ceil(a / b) for b > 0.
Floor(a, b) == a \div b

Ceil(a, b) == 0 - ((0 - a) \div b)

SetMin(S) == CHOOSE x \in S : \A y \in S : x <= y

SetMax(S) == CHOOSE x \in S : \A y \in S : y <= x

----------------------------------------------------------------------------
(* The container: the rows of the tiles table *)

\* A row of the tiles table is <<zoom_level, tile_column, tile_row>>; its
\* tile_data either decodes to an image or does not (row \in corrupt).
Tile(z, c, r) == <<z, c, r>>

\* The rows of a pyramid from level lo to level hi below the tile (c, r) of
\* level lo: that tile, its first descendant on every level, and the last
\* descendant on the deepest one.
Pyramid(lo, hi, c, r) ==
    { Tile(z, c * Pow2(z - lo), r * Pow2(z - lo)) : z \in lo..hi }
    \cup { Tile(hi, c * Pow2(hi - lo) + Pow2(hi - lo) - 1,
                    r * Pow2(hi - lo) + Pow2(hi - lo) - 1) }

GoodContainers ==
    { [openable |-> TRUE, schemaOK |-> TRUE, queryOK |-> TRUE,
       tiles |-> Pyramid(b[1], b[2], b[3], b[4]),
       corrupt |-> IF bad
                   THEN {Tile(b[2], b[3] * Pow2(b[2] - b[1]),
                                    b[4] * Pow2(b[2] - b[1]))}
                   ELSE {}] :
        b \in { x \in (0..MaxZoomLevel) \X (0..MaxZoomLevel) \X {0, 1} \X {0, 1} :
                  x[1] <= x[2] /\ x[3] < Pow2(x[1]) /\ x[4] < Pow2(x[1]) },
        bad \in BOOLEAN }

\* Containers that cannot be opened, have another schema, fail the zoom
\* query, hold no row, hold a negative zoom level, or hold a row whose
\* column and row lie outside the grid of its level.
OddContainers ==
    { [openable |-> o[1], schemaOK |-> o[2], queryOK |-> o[3], tiles |-> ts,
       corrupt |-> {}] :
        o \in { <<FALSE, TRUE, TRUE>>, <<TRUE, FALSE, TRUE>>,
                <<TRUE, TRUE, FALSE>>, <<TRUE, TRUE, TRUE>> },
        ts \in { {}, {Tile(0 - 1, 0, 0), Tile(1, 0, 0)}, {Tile(1, 5, 7)} } }

Containers == GoodContainers \cup OddContainers

----------------------------------------------------------------------------
(* Range, RectC and the SQL aggregates *)

Range(lo, hi) == [min |-> lo, max |-> hi]

\* Range(): the value _zooms holds when the constructor returns early.
DefaultRange == Range(0, 0)

\* Range::isValid(): the range is not degenerate.
RangeIsValid(r) == r.min <= r.max

\* RectC(): the value _bounds holds when the constructor returns early.
DefaultRectC == [null |-> TRUE, left |-> 0, top |-> 0, right |-> 0, bottom |-> 0]

RectC(tl, br) ==
    [null |-> FALSE, left |-> tl.x, top |-> tl.y, right |-> br.x, bottom |-> br.y]

\* min(col) / max(col) of the rows S: one row, NULL over no rows, and
\* QVariant::toInt() reads NULL as 0.
SqlMin(S) == IF S = {} THEN 0 ELSE SetMin(S)

SqlMax(S) == IF S = {} THEN 0 ELSE SetMax(S)

\* What an int left uninitialised may hold.
Uninitialised == {0 - 3, 0, 7}

----------------------------------------------------------------------------
(* Projection *)

\* Half the world in mu: 180 degrees.
HalfWorld == (TILE_SIZE * Pow2(MaxZoomLevel)) \div 2

\* index2mercator(index, zoom): -180 + 360 * index / 2^zoom degrees.
index2mercator(index, zoom) ==
    (2 * HalfWorld * index) \div Pow2(zoom) - HalfWorld

\* osm::zoom2scale(zoom): degrees per pixel, here mu per pixel.
zoom2scale(zoom) == Pow2(MaxZoomLevel - zoom)

\* osm::mercator2tile(m, zoom): the tile of the display grid (rows grow
\* southwards) that holds the Mercator point m.
mercator2tile(m, zoom) ==
    [x |-> Floor((m.x + HalfWorld) * Pow2(zoom), 2 * HalfWorld),
     y |-> Floor((HalfWorld - m.y) * Pow2(zoom), 2 * HalfWorld)]

\* The latitude 85.0511 as a Mercator ordinate: less than a thousandth of
\* a pixel from the edge of the world at the levels of the model.
MaxLatitude == HalfWorld

----------------------------------------------------------------------------
(* The constructor *)

ZoomLevels(f) == { t[1] : t \in f.tiles }

\* The rows of zoom level z.
Level(f, z) == { t \in f.tiles : t[1] = z }

\* A tile index read from the table, forced into the grid of level z.
ClampIndex(v, z) == qMin(Pow2(z) - 1, qMax(0, v))

\* _bounds as the constructor computes it from the extrema of level z.
ComputeBounds(f, z) ==
    LET minX == index2mercator(ClampIndex(SqlMin({ t[2] : t \in Level(f, z) }), z), z)
        minY == index2mercator(ClampIndex(SqlMin({ t[3] : t \in Level(f, z) }), z), z)
        maxX == index2mercator(ClampIndex(SqlMax({ t[2] : t \in Level(f, z) }), z) + 1, z)
        maxY == index2mercator(ClampIndex(SqlMax({ t[3] : t \in Level(f, z) }), z) + 1, z)
    IN  RectC([x |-> minX, y |-> qMin(maxY, MaxLatitude)],
              [x |-> maxX, y |-> qMax(minY, 0 - MaxLatitude)])

\* The zoom range the constructor reads from the table.
ReadZooms(f) == Range(SqlMin(ZoomLevels(f)), SqlMax(ZoomLevels(f)))

Failed(f, msg, zs, z, open) ==
    [valid |-> FALSE, errorString |-> msg, zooms |-> zs, zoom |-> z,
     bounds |-> DefaultRectC, db |-> open]

\* MBTilesMap::MBTilesMap on the container f; g is what _zoom holds when
\* the constructor leaves it unset.
Construct(f, g) ==
    IF ~f.openable
    THEN Failed(f, "Error opening database file", DefaultRange, g, FALSE)
    ELSE IF ~f.schemaOK
    THEN Failed(f, "Invalid table format", DefaultRange, g, TRUE)
    ELSE IF ~f.queryOK
    THEN Failed(f, "Empty tile set", DefaultRange, g, TRUE)
    ELSE IF ReadZooms(f).min < 0 \/ ~RangeIsValid(ReadZooms(f))
    THEN Failed(f, "Invalid zoom levels", ReadZooms(f), g, TRUE)
    ELSE [valid |-> TRUE, errorString |-> "", zooms |-> ReadZooms(f),
          zoom |-> ReadZooms(f).max,
          bounds |-> ComputeBounds(f, ReadZooms(f).min), db |-> FALSE]

\* The fields the map derives at construction, as one value.
Derived ==
    [valid |-> _valid, errorString |-> _errorString, zooms |-> _zooms,
     zoom |-> _zoom, bounds |-> _bounds, deviceRatio |-> _deviceRatio,
     tileRatio |-> _tileRatio]

NoDraw == [bounds |-> <<>>, cacheBefore |-> {}, tiles |-> <<>>, lookups |-> {},
           queries |-> {}, fetched |-> {}, undecoded |-> {}, inserted |-> {},
           painted |-> {}, repeated |-> FALSE, failedBefore |-> {}]

Called(op, arg, ret, before, openBefore, d) ==
    [op |-> op, arg |-> arg, ret |-> ret, before |-> before,
     openBefore |-> openBefore, draw |-> d]

Init ==
    \E f \in Containers, g \in Uninitialised :
        LET m == Construct(f, g)
        IN  /\ container = f
            /\ _db = m.db
            /\ _valid = m.valid
            /\ _errorString = m.errorString
            /\ _zooms = m.zooms
            /\ _zoom = m.zoom
            /\ _bounds = m.bounds
            /\ _deviceRatio = 1
            /\ _tileRatio = 1
            /\ cache = {}
            /\ call = Called("construct", 0, 0, 0, FALSE, NoDraw)

----------------------------------------------------------------------------
(* Ratios and display coordinates *)

coordinatesRatio == IF _deviceRatio > 1 THEN _deviceRatio \div _tileRatio ELSE 1

imageRatio == IF _deviceRatio > 1 THEN _deviceRatio ELSE _tileRatio

tileSize == TILE_SIZE \div coordinatesRatio

\* MBTilesMap::ll2xy: a coordinate (kept as its Mercator image) in display
\* pixels of the current zoom; the display ordinate grows southwards.
ll2xy(c) ==
    [x |-> (c.x \div zoom2scale(_zoom)) \div coordinatesRatio,
     y |-> ((0 - c.y) \div zoom2scale(_zoom)) \div coordinatesRatio]

QRectF(tl, br) == [left |-> tl.x, top |-> tl.y, right |-> br.x, bottom |-> br.y]

\* What bounds() yields for the RectC() of a map whose construction failed.
EmptyRectF == [left |-> 0, top |-> 0, right |-> 0, bottom |-> 0]

Width(q) == q.right - q.left

Height(q) == q.bottom - q.top

\* MBTilesMap::bounds()
bounds ==
    IF _bounds.null
    THEN EmptyRectF
    ELSE QRectF(ll2xy([x |-> _bounds.left, y |-> _bounds.top]),
                ll2xy([x |-> _bounds.right, y |-> _bounds.bottom]))

\* limitZoom without its upper clamp.
limitZoom_NoUpperClamp(zoom) ==
    IF zoom < _zooms.min THEN _zooms.min ELSE zoom

\* limitZoom without its lower clamp.
limitZoom_NoLowerClamp(zoom) ==
    IF zoom > _zooms.max THEN _zooms.max ELSE zoom

\* MBTilesMap::limitZoom(zoom)
limitZoom(zoom) ==
    IF zoom < _zooms.min THEN _zooms.min
    ELSE IF zoom > _zooms.max THEN _zooms.max
    ELSE zoom

----------------------------------------------------------------------------
(* Inputs *)

\* Zoom levels handed to limitZoom, and the levels osm::scale2zoom may
\* compute in zoomFit: the stored levels and one on either side.
ZoomArgs == (0 - 1)..(MaxZoomLevel + 1)

\* Viewport sizes handed to zoomFit.
Sizes == { [width |-> w, height |-> h] : w \in {0, 640}, h \in {480} }

\* Viewports handed to draw, in display pixels: squares of 300 and of 100
\* pixels at a few origins.
Viewports ==
    { [left |-> x, top |-> y, right |-> x + e, bottom |-> y + e] :
        x \in {0 - 512, 0 - 128, 100, 600}, y \in {0 - 128, 100}, e \in {300} }
    \cup
    { [left |-> x, top |-> 100, right |-> x + 100, bottom |-> 200] :
        x \in {100, 600} }

----------------------------------------------------------------------------
(* Operations that do not draw *)

Frame == UNCHANGED <<container, _deviceRatio, _tileRatio, _valid, _errorString,
                     _zooms, _bounds>>

\* QSqlDatabase::open() on the connection of container f.
DbOpen(f) == f.openable

\* A load() that sets the zoom anew, as the constructor does.
Load_Rebuilding ==
    /\ _db' = DbOpen(container)
    /\ _zoom' = _zooms.max
    /\ call' = Called("load", 0, 0, Derived, _db, NoDraw)
    /\ UNCHANGED cache
    /\ Frame

\* MBTilesMap::load()
Load ==
    /\ _db' = DbOpen(container)
    /\ call' = Called("load", 0, 0, Derived, _db, NoDraw)
    /\ UNCHANGED <<_zoom, cache>>
    /\ Frame

\* MBTilesMap::unload()
Unload ==
    /\ _db' = FALSE
    /\ call' = Called("unload", 0, 0, Derived, _db, NoDraw)
    /\ UNCHANGED <<_zoom, cache>>
    /\ Frame

\* A call of bounds() by the host.
Bounds ==
    /\ call' = Called("bounds", 0, bounds, Derived, _db, NoDraw)
    /\ UNCHANGED <<_db, _zoom, cache>>
    /\ Frame

\* A call of limitZoom(z) by the host.
LimitZoom ==
    \E z \in ZoomArgs :
        /\ call' = Called("limitZoom", z, limitZoom(z), Derived, _db, NoDraw)
        /\ UNCHANGED <<_db, _zoom, cache>>
        /\ Frame

\* zoomFit without the test of the rectangle.
zoomFit_NoValidityTest(rectIsValid, fit) == limitZoom(fit)

\* The zoom zoomFit(size, rect) sets: fit is what osm::scale2zoom computes
\* from the rectangle and the size when the rectangle is valid.
zoomFit(rectIsValid, fit) ==
    IF ~rectIsValid THEN _zooms.max ELSE limitZoom(fit)

\* The rectangles handed to zoomFit: an invalid one, or a valid one for
\* which osm::scale2zoom computes fit.
FitRects ==
    { [isValid |-> FALSE, fit |-> 0] }
    \cup { [isValid |-> TRUE, fit |-> z] : z \in ZoomArgs }

\* MBTilesMap::zoomFit(size, rect)
ZoomFit ==
    \E size \in Sizes, rect \in FitRects :
        /\ _zoom' = zoomFit(rect.isValid, rect.fit)
        /\ call' = Called("zoomFit", [size |-> size, rect |-> rect],
                          _zoom', Derived, _db, NoDraw)
        /\ UNCHANGED <<_db, cache>>
        /\ Frame

\* zoomIn without the clamp.
zoomIn_Unclamped == _zoom + 1

\* The zoom zoomIn() sets.
zoomIn == qMin(_zoom + 1, _zooms.max)

\* The zoom zoomOut() sets.
zoomOut == qMax(_zoom - 1, _zooms.min)

\* MBTilesMap::zoomIn()
ZoomIn ==
    /\ _zoom' = zoomIn
    /\ call' = Called("zoomIn", 0, _zoom', Derived, _db, NoDraw)
    /\ UNCHANGED <<_db, cache>>
    /\ Frame

\* MBTilesMap::zoomOut()
ZoomOut ==
    /\ _zoom' = zoomOut
    /\ call' = Called("zoomOut", 0, _zoom', Derived, _db, NoDraw)
    /\ UNCHANGED <<_db, cache>>
    /\ Frame

----------------------------------------------------------------------------
(* Drawing *)

\* The query bound to the display row itself.
storageRow_Unflipped(zoom, y) == y

\* The tile_row bound to the query for the display row y of level zoom.
storageRow(zoom, y) == Pow2(zoom) - y - 1

\* The values tileData binds to :zoom, :x and :y.
tileQuery(zoom, tile) == Tile(zoom, tile.x, storageRow(zoom, tile.y))

\* MBTilesMap::tileData(zoom, tile): the blob of the row, "" for no row or
\* a query that fails on a closed connection.
tileData(zoom, tile) ==
    IF _db /\ tileQuery(zoom, tile) \in container.tiles
    THEN IF tileQuery(zoom, tile) \in container.corrupt THEN "corrupt" ELSE "image"
    ELSE ""

\* QPixmap::loadFromData(data): TRUE when the blob decodes.
loadFromData(data) == data = "image"

\* The cache key of a tile: file name, zoom, column and display row.  The
\* file name is the same in every key of the one map.
Key(zoom, tile) == <<zoom, tile.x, tile.y>>

\* The display tile of the viewport's top left corner.
FirstTile(rect) ==
    mercator2tile([x |-> rect.left * zoom2scale(_zoom) * coordinatesRatio,
                   y |-> (0 - rect.top) * zoom2scale(_zoom) * coordinatesRatio],
                  _zoom)

\* The viewport's top left corner snapped to the tile grid.
Snapped(rect) ==
    [x |-> Floor(rect.left, tileSize) * tileSize,
     y |-> Floor(rect.top, tileSize) * tileSize]

\* The extent taken from the viewport alone.
Extent_Uncapped(rect) ==
    [width |-> rect.right - Snapped(rect).x,
     height |-> rect.bottom - Snapped(rect).y]

\* The extent s the loops cover.
Extent(rect) ==
    [width |-> qMin(rect.right - Snapped(rect).x, Width(bounds)),
     height |-> qMin(rect.bottom - Snapped(rect).y, Height(bounds))]

\* The tiles t the two loops visit from the tile first on, cols times rows
\* of them, in the order of the visits.
Grid(first, cols, rows) ==
    IF cols <= 0 \/ rows <= 0
    THEN <<>>
    ELSE [k \in 1..(cols * rows) |->
            [x |-> first.x + ((k - 1) \div rows),
             y |-> first.y + ((k - 1) % rows)]]

\* The tiles of the loops, whose bounds are ceil(s.width() / tileSize())
\* and ceil(s.height() / tileSize()).
Tiles(first, s) ==
    Grid(first, Ceil(s.width, tileSize), Ceil(s.height, tileSize))

Enumerated(rect) == Tiles(FirstTile(rect), Extent(rect))

\* Whether the loop body calls tileData: QPixmapCache::find failed.
Queries(found) == ~found

\* An insert of whatever the load left in the pixmap.
Inserts_Unchecked(found, data) == ~found

\* Whether the loop body inserts the pixmap: the lookup failed and the
\* fetched blob decoded.
Inserts(found, data) == ~found /\ loadFromData(data)

\* Whether the pixmap is not null after the lookup and the load.
Paints(found, data) == found \/ loadFromData(data)

\* The cache after the loop body has handled a tile.
CacheAfter(c, key, found, data) ==
    IF Inserts(found, data) THEN c \cup {key} ELSE c

\* The loop body for tile t with cache key key, found or not in the cache,
\* and data fetched when it was not: what it does to the run's record st.
Body(st, t, key, found, data) ==
    [cache |-> CacheAfter(st.cache, key, found, data),
     lookups |-> st.lookups \cup {key},
     queries |-> IF Queries(found)
                 THEN st.queries \cup {tileQuery(_zoom, t)} ELSE st.queries,
     fetched |-> IF Queries(found) THEN st.fetched \cup {t} ELSE st.fetched,
     undecoded |-> IF Queries(found) /\ ~loadFromData(data)
                   THEN st.undecoded \cup {t} ELSE st.undecoded,
     inserted |-> IF Inserts(found, data)
                  THEN st.inserted \cup {key} ELSE st.inserted,
     painted |-> IF Paints(found, data)
                 THEN st.painted \cup {t} ELSE st.painted]

\* One run of the loop body for tile t, on the run's record st.
DrawTile(st, t) ==
    Body(st, t, Key(_zoom, t), Key(_zoom, t) \in st.cache,
         IF Queries(Key(_zoom, t) \in st.cache) THEN tileData(_zoom, t) ELSE "")

RECURSIVE DrawLoop(_, _, _)
\* The two loops from the k-th tile of ts on.
DrawLoop(st, ts, k) ==
    IF k > Len(ts) THEN st ELSE DrawLoop(DrawTile(st, ts[k]), ts, k + 1)

\* The record of a run of the loops that has handled no tile yet.
Start(c) ==
    [cache |-> c, lookups |-> {}, queries |-> {}, fetched |-> {},
     undecoded |-> {}, inserted |-> {}, painted |-> {}]

\* Whether draw(rect) repeats the call made just before it.
Again(rect) ==
    call.op = "draw" /\ call.arg = rect /\ call.before.zoom = _zoom

\* MBTilesMap::draw(painter, rect, flags)
Draw ==
    \E rect \in Viewports :
        \E ts \in {Enumerated(rect)} :
            \E st \in {DrawLoop(Start(cache), ts, 1)} :
                /\ cache' = st.cache
                /\ call' = Called("draw", rect, 0, Derived, _db,
                             [bounds |-> bounds, cacheBefore |-> cache,
                              tiles |-> ts, lookups |-> st.lookups,
                              queries |-> st.queries, fetched |-> st.fetched,
                              undecoded |-> st.undecoded,
                              inserted |-> st.inserted, painted |-> st.painted,
                              repeated |-> Again(rect),
                              failedBefore |-> IF Again(rect)
                                               THEN call.draw.undecoded
                                               ELSE {}])
                /\ UNCHANGED <<_db, _zoom>>
                /\ Frame

\* QPixmapCache drops an entry on its own (its size limit, other maps).
CacheEvict ==
    \E key \in cache :
        /\ cache' = cache \ {key}
        /\ call' = Called("evict", key, 0, Derived, _db, NoDraw)
        /\ UNCHANGED <<_db, _zoom>>
        /\ Frame

----------------------------------------------------------------------------

Next ==
    \/ Load
    \/ Unload
    \/ Bounds
    \/ LimitZoom
    \/ ZoomFit
    \/ ZoomIn
    \/ ZoomOut
    \/ Draw
    \/ CacheEvict

Spec == Init /\ [][Next]_vars

----------------------------------------------------------------------------
(* Properties *)

\* The tiles of the last draw, as a set.
LastTiles == { call.draw.tiles[k] : k \in 1..Len(call.draw.tiles) }

\* Whether two rectangles of the display plane share no point.
Disjoint(a, b) ==
    \/ a.right <= b.left
    \/ b.right <= a.left
    \/ a.bottom <= b.top
    \/ b.bottom <= a.top

\* C1: on a valid map the current zoom is the largest stored level right
\* after construction, and lies within the zoom range in every state that
\* zoomIn, zoomOut, zoomFit, load, unload and draw can reach.
C1_ZoomWithinRange ==
    _valid =>
        /\ _zooms.min <= _zoom
        /\ _zoom <= _zooms.max
        /\ call.op = "construct" => _zoom = _zooms.max

\* C1 witness: a valid map with more than one level, after zoomFit on a
\* valid rectangle whose fit lies above the range.
C1_Witness ==
    /\ _valid
    /\ _zooms.min < _zooms.max
    /\ call.op = "zoomFit"
    /\ call.arg.rect.isValid
    /\ call.arg.rect.fit > _zooms.max
    /\ call.before.zoom < _zooms.max

\* C2: construction leaves the map invalid, with an error string, whenever
\* the tiles table holds no row, the smallest zoom level is negative or the
\* zoom range is degenerate.
C2_EmptyOrBadZoomsInvalid ==
    (\/ container.tiles = {}
     \/ \E t \in container.tiles : t[1] < 0
     \/ ReadZooms(container).max < ReadZooms(container).min) =>
        ~_valid /\ _errorString # ""

\* C3: a draw whose viewport shares no point with bounds() enumerates no
\* tile: no cache lookup and no query of the tile source (stated for the
\* maps of containers that hold tiles).
C3_OutsideDrawsNothing ==
    (/\ _valid
     /\ container.tiles # {}
     /\ call.op = "draw"
     /\ Disjoint(call.arg, call.draw.bounds)) =>
        /\ call.draw.tiles = <<>>
        /\ call.draw.lookups = {}
        /\ call.draw.queries = {}

C5_ZoomInOutClamped ==
    /\ call.op = "zoomIn" =>
          /\ call.ret = _zoom
          /\ _zoom = IF call.before.zoom + 1 <= _zooms.max
                     THEN call.before.zoom + 1 ELSE _zooms.max
          /\ call.before.zoom = _zooms.max => call.ret = _zooms.max
          /\ call.before.zoom < _zooms.max => _zoom = call.before.zoom + 1
    /\ call.op = "zoomOut" =>
          /\ call.ret = _zoom
          /\ _zoom = IF call.before.zoom - 1 >= _zooms.min
                     THEN call.before.zoom - 1 ELSE _zooms.min
          /\ call.before.zoom = _zooms.min => call.ret = _zooms.min
          /\ call.before.zoom > _zooms.min => _zoom = call.before.zoom - 1

\* C5 witness: zoomIn() called on a valid map at its largest level.
C5_Witness ==
    /\ _valid
    /\ _zooms.min < _zooms.max
    /\ call.op = "zoomIn"
    /\ call.before.zoom = _zooms.max

\* C6: zoomFit on an invalid rectangle sets the zoom to the largest level
\* and returns it, whatever the size and the zoom before.
C6_FitInvalidRectIsMax ==
    (call.op = "zoomFit" /\ ~call.arg.rect.isValid) =>
        _zoom = _zooms.max /\ call.ret = _zooms.max

\* C6 witness: zoomFit on an invalid rectangle and a size of no width, on a
\* valid map zoomed out to its smallest level.
C6_Witness ==
    /\ _valid
    /\ call.op = "zoomFit"
    /\ ~call.arg.rect.isValid
    /\ call.arg.size.width = 0
    /\ call.before.zoom = _zooms.min
    /\ _zooms.min < _zooms.max

\* C7: limitZoom clamps into the zoom range, is idempotent and leaves the
\* map as it was.
C7_LimitZoomClamp ==
    call.op = "limitZoom" =>
        /\ call.arg < _zooms.min => call.ret = _zooms.min
        /\ call.arg > _zooms.max => call.ret = _zooms.max
        /\ (_zooms.min <= call.arg /\ call.arg <= _zooms.max) =>
              call.ret = call.arg
        /\ limitZoom(call.ret) = call.ret
        /\ Derived = call.before
        /\ _db = call.openBefore

\* C7 witness: limitZoom of a level below the range of a valid map whose
\* smallest level is not 0.
C7_Witness ==
    /\ _valid
    /\ call.op = "limitZoom"
    /\ call.arg < _zooms.min
    /\ _zooms.min > 0

\* C8: the fetch queries the source with row 2^zoom - row - 1 and the same
\* column and zoom; the conversion undoes itself and maps the rows of a
\* level one-to-one onto themselves.
C8_RowFlip ==
    /\ call.op = "draw" =>
          call.draw.queries =
              { <<call.before.zoom, t.x, (2 ^ call.before.zoom) - t.y - 1>> :
                    t \in call.draw.fetched }
    /\ \A z \in 0..MaxZoomLevel :
          /\ \A y \in 0..((2 ^ z) - 1) :
                /\ storageRow(z, y) \in 0..((2 ^ z) - 1)
                /\ storageRow(z, storageRow(z, y)) = y
          /\ \A y1, y2 \in 0..((2 ^ z) - 1) :
                storageRow(z, y1) = storageRow(z, y2) => y1 = y2

\* C8 witness: a draw that fetched and painted a tile whose display row is
\* not its storage row.
C8_Witness ==
    /\ call.op = "draw"
    /\ \E t \in call.draw.fetched \cap call.draw.painted :
          /\ <<call.before.zoom, t.x, (2 ^ call.before.zoom) - t.y - 1>>
                \in container.tiles
          /\ <<call.before.zoom, t.x, t.y>> \notin container.tiles

\* C9: load() and unload() change nothing but the connection: load leaves
\* an open connection open, and opens that of a valid map; unload leaves
\* the connection closed.
C9_LoadUnloadFrame ==
    /\ call.op \in {"load", "unload"} => Derived = call.before
    /\ call.op = "load" =>
          /\ call.openBefore => _db
          /\ _valid => _db
    /\ call.op = "unload" => ~_db

\* C9 witness: load() on a valid map that is zoomed out, its connection
\* open already.
C9_Witness ==
    /\ _valid
    /\ call.op = "load"
    /\ call.openBefore
    /\ _zoom < _zooms.max

\* C10: a draw queries the source exactly for the tiles whose key the cache
\* lacks, inserts exactly the fetched tiles that decode, paints exactly the
\* tiles found or decoded, handles every tile of its grid, and removes no
\* entry; a draw that repeats the one before fetches only what failed then.
C10_CacheDiscipline ==
    call.op = "draw" =>
        /\ call.draw.fetched =
              { t \in LastTiles : <<call.before.zoom, t.x, t.y>>
                                     \notin call.draw.cacheBefore }
        /\ call.draw.inserted =
              { <<call.before.zoom, t.x, t.y>> : t \in
                  { u \in call.draw.fetched :
                      /\ call.openBefore
                      /\ <<call.before.zoom, u.x,
                           (2 ^ call.before.zoom) - u.y - 1>>
                            \in container.tiles \ container.corrupt } }
        /\ cache = call.draw.cacheBefore \cup call.draw.inserted
        /\ call.draw.painted =
              { t \in LastTiles : <<call.before.zoom, t.x, t.y>> \in cache }
        /\ call.draw.lookups =
              { <<call.before.zoom, t.x, t.y>> : t \in LastTiles }
        /\ call.draw.cacheBefore \subseteq cache
        /\ call.draw.repeated => call.draw.fetched = call.draw.failedBefore

\* C10 witness: a repeated draw that painted one tile from the cache and
\* fetched again a tile whose blob does not decode.
C10_Witness ==
    /\ call.op = "draw"
    /\ call.draw.repeated
    /\ call.draw.painted # {}
    /\ \E t \in call.draw.fetched :
          <<call.before.zoom, t.x, (2 ^ call.before.zoom) - t.y - 1>>
              \in container.corrupt

============================================================================
